---- MODULE Spec2Model ----
(***************************************************************************)
(* Model of src/huskylens_bridge.py: HuskyLensMCPClient (session           *)
(* establishment, call_tool, the SSE fallback, response normalisation)     *)
(* and BridgeServer.handle_tool_call / handle_list_tools.                  *)
(*                                                                         *)
(* Text is a sequence of chunks.  A stream line is [pre, data]: pre says   *)
(* the stripped line starts with 'data: ', data is line_text[6:] as a      *)
(* sequence of chunks.  None is the empty sequence.                        *)
(***************************************************************************)
EXTENDS Integers, Sequences, FiniteSets, TLC

\* ------------------------------------------------------------------ bounds
NumProcs == 2
MaxCalls == 2
MaxItems == 2
MaxLines == 3

\* ------------------------------------------------------- program constants
InternalError == 0 - 32603
ServerUrl == <<"http://husky">>
None == <<>>

Procs == 1..NumProcs

\* ------------------------------------------------------------ stream lines
HexTok == {"a", "7"}
Tok == {"/message", "session_id=", "a", "7", "X"}

Contains(s, t) == \E i \in 1..Len(s) : s[i] = t
StartsWith(s, t) == Len(s) >= 1 /\ s[1] = t

\* re.search(r'session_id=([a-f0-9-]+)', data_str): the positions where the
\* pattern matches; the search returns the leftmost one.
MatchStarts(s) == {i \in 1..Len(s) : s[i] = "session_id=" /\ i < Len(s) /\ s[i + 1] \in HexTok}
HasMatch(s) == MatchStarts(s) # {}
FirstMatch(s) == CHOOSE i \in MatchStarts(s) : \A j \in MatchStarts(s) : i <= j
\* the greedy group: the longest run of [a-f0-9-] chunks from position i
RunEnd(s, i) == CHOOSE j \in i..Len(s) : (\A k \in i..j : s[k] \in HexTok) /\ (j = Len(s) \/ s[j + 1] \notin HexTok)
Group1(s) == LET i == FirstMatch(s) + 1 IN SubSeq(s, i, RunEnd(s, i))

\* One iteration of the loop body of _establish_session on a line, from the
\* fields (sid, url): whether the loop breaks and the fields afterwards.
EstablishOnLine(line, sid, url) ==
  IF ~line.pre THEN [brk |-> FALSE, sid |-> sid, url |-> url]
  ELSE IF Contains(line.data, "session_id=")
       THEN IF HasMatch(line.data)
            THEN [brk |-> TRUE, sid |-> Group1(line.data), url |-> ServerUrl \o line.data]
            ELSE [brk |-> FALSE, sid |-> sid, url |-> url]
       ELSE IF StartsWith(line.data, "/message")
            THEN [brk |-> TRUE, sid |-> sid, url |-> ServerUrl \o line.data]
            ELSE [brk |-> FALSE, sid |-> sid, url |-> url]


\* ------------------------------------------------------------ JSON values
\* A decoded payload.  kind is the JSON type of the top-level value (a
\* string or list is told apart by whether it contains "error", and then
\* whether it contains "result" too); for an
\* object: hasError ("error" key present, with ecode/emsg), idk/idv (the
\* "id" key: absent, null or an integer), jsonrpc ("jsonrpc" key present),
\* rk (the "result" key: absent, an object, a scalar (number, boolean or
\* null), or a string or list that does not (seq) or does (seq_with_content)
\* contain "content"), and for
\* a result object: isErr (the "isError" key), ck (the "content" key: absent,
\* a list, a string, null, another value (number, boolean or object)), cs (a
\* string content), items (a list content).  An item is [type, tk, ts]: tk says whether its "text" key is
\* absent, a string (ts) or a number.
\* A text is a sequence of chunks: "a" and "b" are words (not JSON), "\n" a
\* newline, "[[[" a chunk json.loads fails on with an error that is not a
\* JSONDecodeError (arrays nested deeper than the recursion limit:
\* RecursionError; a number of more digits than int() converts: ValueError).
Texts == {<<>>, <<"a">>, <<"b">>, <<"[[[">>}

Blank ==
  [kind |-> "object", hasError |-> FALSE, ecode |-> 0, emsg |-> "", idk |-> "absent", idv |-> 0,
   jsonrpc |-> FALSE, rk |-> "absent", isErr |-> "absent", ck |-> "absent", cs |-> <<>>, items |-> <<>>]

\* {"error": {"code": -32603, "message": msg}}
ErrorEnvelope(msg) == [Blank EXCEPT !.hasError = TRUE, !.ecode = InternalError, !.emsg = msg]

\* the text items of a content list, in order: item.get("text", "")
RECURSIVE TextParts(_)
TextParts(items) ==
  IF items = <<>> THEN <<>>
  ELSE LET it == Head(items) IN
       (IF it.type = "text"
        THEN << [tk |-> IF it.tk = "num" THEN "num" ELSE "str", ts |-> IF it.tk = "str" THEN it.ts ELSE <<>>] >>
        ELSE <<>>) \o TextParts(Tail(items))

\* "\n".join(text_parts) on strings
RECURSIVE JoinTrailing(_)
JoinTrailing(parts) ==
  IF parts = <<>> THEN <<>> ELSE Head(parts).ts \o <<"\n">> \o JoinTrailing(Tail(parts))

RECURSIVE Join(_)
Join(parts) ==
  IF parts = <<>> THEN <<>>
  ELSE IF Len(parts) = 1 THEN parts[1].ts
  ELSE Head(parts).ts \o <<"\n">> \o Join(Tail(parts))

\* the results for which isinstance(result, dict) is false
NonObjectResults == {"scalar", "seq", "seq_with_content"}

\* "error" in response, for the top-level JSON types on which it evaluates
InError(r) ==
  \/ r.kind = "object" /\ r.hasError
  \/ r.kind \in {"string_with_error", "list_with_error", "string_with_error_result", "list_with_error_result"}

\* _process_tool_response: exc says it raised (TypeError on a number or null,
\* AttributeError on a string or list without "error", TypeError from join
\* on a text item whose text is not a string); resp is the value returned.
Normalize(r) ==
  IF r.kind \in {"number", "null"} THEN [exc |-> TRUE, resp |-> r]
  ELSE IF InError(r) THEN [exc |-> FALSE, resp |-> r]
  ELSE IF r.kind # "object" THEN [exc |-> TRUE, resp |-> r]
  ELSE IF r.rk \in NonObjectResults THEN [exc |-> FALSE, resp |-> r]
  ELSE LET is_error == IF r.rk = "absent" \/ r.isErr = "absent" THEN "false" ELSE r.isErr
           text_parts == IF r.rk = "absent" THEN <<>>
                         ELSE IF r.ck = "list" THEN TextParts(r.items)
                         ELSE IF r.ck = "str" THEN << [tk |-> "str", ts |-> r.cs] >>
                         ELSE <<>>
       IN IF \E i \in 1..Len(text_parts) : text_parts[i].tk = "num"
          THEN [exc |-> TRUE, resp |-> r]
          ELSE [exc |-> FALSE,
                resp |-> [Blank EXCEPT !.jsonrpc = TRUE,
                                       !.idk = IF r.idk = "absent" THEN "null" ELSE r.idk,
                                       !.idv = r.idv,
                                       !.rk = "object",
                                       !.isErr = is_error,
                                       !.ck = "str",
                                       !.cs = Join(text_parts)]]

\* ------------------------------------------------- inputs of normalisation
SeqsUpTo(S, n) == UNION {[1..k -> S] : k \in 0..n}

Items ==
  {[type |-> "text", tk |-> "absent", ts |-> <<>>], [type |-> "text", tk |-> "num", ts |-> <<>>]}
  \cup {[type |-> "text", tk |-> "str", ts |-> t] : t \in Texts}
  \cup {[type |-> "resource_link", tk |-> "absent", ts |-> <<>>], [type |-> "resource_link", tk |-> "str", ts |-> <<"a">>]}
  \cup {[type |-> "image", tk |-> "absent", ts |-> <<>>], [type |-> "nondict", tk |-> "absent", ts |-> <<>>]}

IdShapes == {[idk |-> "absent", idv |-> 0], [idk |-> "null", idv |-> 0], [idk |-> "int", idv |-> 1], [idk |-> "int", idv |-> 2]}

ResultShapes ==
  {[rk |-> "absent", isErr |-> "absent", ck |-> "absent", cs |-> <<>>, items |-> <<>>]}
  \cup {[rk |-> k, isErr |-> "absent", ck |-> "absent", cs |-> <<>>, items |-> <<>>] : k \in NonObjectResults}
  \cup {[rk |-> "object", isErr |-> e, ck |-> c, cs |-> <<>>, items |-> <<>>] :
          e \in {"absent", "false", "true", "other"}, c \in {"absent", "null", "other"}}
  \cup {[rk |-> "object", isErr |-> e, ck |-> "str", cs |-> t, items |-> <<>>] :
          e \in {"absent", "false", "true", "other"}, t \in Texts}
  \cup {[rk |-> "object", isErr |-> e, ck |-> "list", cs |-> <<>>, items |-> l] :
          e \in {"absent", "false", "true", "other"}, l \in SeqsUpTo(Items, MaxItems)}

Success(i, j, x) ==
  [Blank EXCEPT !.idk = i.idk, !.idv = i.idv, !.jsonrpc = j,
                !.rk = x.rk, !.isErr = x.isErr, !.ck = x.ck, !.cs = x.cs, !.items = x.items]

NonObjects == {[Blank EXCEPT !.kind = k] : k \in {"number", "null", "string", "list", "string_with_error", "list_with_error",
                                                      "string_with_error_result", "list_with_error_result"}}

NormInputs ==
  {Success(i, j, x) : i \in IdShapes, j \in BOOLEAN, x \in ResultShapes}
  \cup {[Blank EXCEPT !.hasError = TRUE, !.ecode = c, !.emsg = "upstream", !.idk = i.idk, !.idv = i.idv, !.jsonrpc = j] :
          c \in {InternalError, 0 - 32000}, i \in IdShapes, j \in BOOLEAN}
  \cup NonObjects

\* --------------------------------------------------------------- upstream
\* The stream lines the upstream sends on GET /sse in the client/bridge model.
EstLines ==
  {[pre |-> FALSE, data |-> <<"/message", "session_id=", "a">>],
   [pre |-> TRUE, data |-> <<"X">>],
   [pre |-> TRUE, data |-> <<"/message", "session_id=", "a">>],
   [pre |-> TRUE, data |-> <<"/message">>],
   [pre |-> TRUE, data |-> <<"/message", "session_id=", "X">>]}

\* The payloads the upstream answers request rid with.
BodyResps(rid) ==
  {Success([idk |-> "int", idv |-> rid], TRUE,
           [rk |-> "object", isErr |-> "absent", ck |-> "list", cs |-> <<>>,
            items |-> << [type |-> "text", tk |-> "str", ts |-> <<"a">>], [type |-> "resource_link", tk |-> "absent", ts |-> <<>>] >>]),
   Success([idk |-> "int", idv |-> rid + 1], TRUE,
           [rk |-> "object", isErr |-> "false", ck |-> "str", cs |-> <<"b">>, items |-> <<>>]),
   [Blank EXCEPT !.hasError = TRUE, !.ecode = 0 - 32000, !.emsg = "upstream", !.idk = "int", !.idv = rid, !.jsonrpc = TRUE],
   [Blank EXCEPT !.kind = "number"]}

\* A line of a response body or of the POST /sse stream: pre (starts with
\* 'data: '), what (the text after the prefix: the [DONE] sentinel, digits,
\* text that is not JSON (json.loads raises JSONDecodeError), text on which
\* json.loads raises another error (raises: a numeral of more digits than
\* int() converts gives ValueError, arrays nested deeper than the recursion
\* limit give RecursionError), or JSON), resp (the decoded JSON).
BodyLines(rid) ==
  {[pre |-> FALSE, what |-> "garbage", resp |-> Blank],
   [pre |-> TRUE, what |-> "done", resp |-> Blank],
   [pre |-> TRUE, what |-> "digits", resp |-> Blank],
   [pre |-> TRUE, what |-> "garbage", resp |-> Blank],
   [pre |-> TRUE, what |-> "raises", resp |-> Blank]}
  \cup {[pre |-> TRUE, what |-> "json", resp |-> r] : r \in BodyResps(rid)}

\* The data-prefixed bodies the upstream answers request rid with: a
\* sentinel, text that is not JSON or digits first, then a payload or none.
SseBodies(rid) ==
  LET Line(w) == [pre |-> TRUE, what |-> w, resp |-> Blank]
      Json(r) == [pre |-> TRUE, what |-> "json", resp |-> r]
  IN {<<Line("done")>>, <<Line("garbage"), Line("done")>>, <<Line("digits"), Line("done")>>, <<Line("raises")>>}
     \cup {<<Json(r)>> : r \in BodyResps(rid)}
     \cup {<<Line(w), Json(r)>> : w \in {"done", "garbage"}, r \in BodyResps(rid)}

\* What the POST to the message endpoint can come to: a timeout, a transport
\* error, a status that is not 200, or status 200 with a body that is not
\* data-prefixed (text: json.loads raises JSONDecodeError; unloadable:
\* json.loads raises another error; json: it returns resp) or that is
\* data-prefixed (sse).
PostOutcomes(rid) ==
  {[t |-> "timeout", lines |-> <<>>, resp |-> Blank],
   [t |-> "error", lines |-> <<>>, resp |-> Blank],
   [t |-> "status", lines |-> <<>>, resp |-> Blank],
   [t |-> "text", lines |-> <<>>, resp |-> Blank],
   [t |-> "unloadable", lines |-> <<>>, resp |-> Blank]}
  \cup {[t |-> "json", lines |-> <<>>, resp |-> r] : r \in BodyResps(rid)}
  \cup {[t |-> "sse", lines |-> l, resp |-> Blank] : l \in SseBodies(rid)}

\* the loop of call_tool over the lines of a data-prefixed body (lines
\* 116-123): the first data line that is not [DONE] and on which json.loads
\* does not raise JSONDecodeError: it is the payload found, or json.loads
\* raises another error on it (exc), which leaves the loop and the try
RECURSIVE PostScan(_)
PostScan(lines) ==
  IF lines = <<>> THEN [found |-> FALSE, exc |-> FALSE, resp |-> Blank]
  ELSE LET l == Head(lines) IN
       IF l.pre /\ l.what = "raises" THEN [found |-> FALSE, exc |-> TRUE, resp |-> Blank]
       ELSE IF l.pre /\ l.what \in {"json", "digits"}
       THEN [found |-> TRUE, exc |-> FALSE, resp |-> IF l.what = "digits" THEN [Blank EXCEPT !.kind = "number"] ELSE l.resp]
       ELSE PostScan(Tail(lines))

\* ------------------------------------------------------------------ state
VARIABLES
  session,      \* self.session: "none", "open", "closed"
  request_id,   \* self.request_id
  session_id,   \* self.session_id
  message_url,  \* self.message_url
  call,         \* per handler in flight: position, locals and what it did so far
  returned,     \* the handler that returned and whose response is being written (Idle if none)
  issued,       \* the ids placed in outbound requests, in order
  invocations,  \* the number of call and listTools invocations so far
  normIn, norm1, norm2, normPass,   \* a payload and its normalisations
  estIn, estPrev, estState,         \* a sequential establishment: lines read, fields before, position
  sseIn, sseOut, sseState           \* a stream-fallback scan: lines read, value returned, position

vars == <<session, request_id, session_id, message_url, call, returned, issued, invocations,
          normIn, norm1, norm2, normPass, estIn, estPrev, estState, sseIn, sseOut, sseState>>

normVars == <<normIn, norm1, norm2, normPass>>
estVars == <<estIn, estPrev, estState>>
sseVars == <<sseIn, sseOut, sseState>>

Pending == [kind |-> "pending", resp |-> Blank]
ReturnedNone == [kind |-> "none", resp |-> Blank]
Started == [kind |-> "started", resp |-> Blank]
Value(r) == [kind |-> "value", resp |-> r]

NoLine == [pre |-> FALSE, data |-> <<>>]

Idle ==
  [pc |-> "idle", op |-> "none", rid |-> 0, ids |-> <<>>, hadUrl |-> FALSE,
   preSid |-> None, preUrl |-> None, postUrl |-> None, posts |-> 0, sends |-> 0,
   ests |-> 0, estsAtPost |-> 0, estRes |-> "none", estLine |-> NoLine, postOut |-> "none",
   raised |-> FALSE, ret |-> Pending, http |-> 0, body |-> "pending", dead |-> FALSE, req |-> "none"]

\* json.loads(content) of line 342: leading whitespace is skipped, then the
\* first chunk decides: "raise" is an exception that line 344 does not
\* catch, "text" a JSONDecodeError (the empty text included)
JsonLoads(cs) ==
  LET sig == SelectSeq(cs, LAMBDA t : t # "\n")
  IN IF sig # <<>> /\ sig[1] = "[[[" THEN "raise" ELSE "text"

\* BridgeServer.handle_tool_call from the value call_tool returned
\* (lines 336-359).  `"result" in result` raises on None, a number or null,
\* and is a containment test on a string or list: result["result"] then
\* raises.  `"content" in result["result"]` raises on a scalar and is a
\* containment test on a string or list: indexing it with "content" then
\* raises.  A content that is a string is sent as text when json.loads
\* raises JSONDecodeError and answered 500 when it raises another error
\* (line 358); a null content is sent as an empty text; web.Response
\* refuses any other content.
HttpOfCall(v) ==
  IF v.kind = "none" THEN 500
  ELSE IF v.resp.kind \in {"number", "null"} THEN 500
  ELSE IF v.resp.kind \in {"string_with_error_result", "list_with_error_result"} THEN 500
  ELSE IF v.resp.kind # "object" THEN 200
  ELSE IF v.resp.rk = "absent" THEN 200
  ELSE IF v.resp.rk \in {"scalar", "seq_with_content"} THEN 500
  ELSE IF v.resp.rk = "seq" THEN 200
  ELSE IF v.resp.ck \in {"absent", "null"} THEN 200
  ELSE IF v.resp.ck = "str" THEN (IF JsonLoads(v.resp.cs) = "raise" THEN 500 ELSE 200)
  ELSE 500

HttpOf(op, v) ==
  IF op = "call" THEN HttpOfCall(v)
  ELSE IF op = "list" THEN 200
  ELSE 0

\* the handler returns v
Done(st, v) ==
  [st EXCEPT !.c.pc = "done", !.c.dead = FALSE, !.c.ret = v, !.c.http = HttpOf(st.c.op, v),
             !.c.body = IF st.c.op \in {"call", "list"} /\ HttpOf(st.c.op, v) = 500 THEN "error: str(e)" ELSE "result"]

\* an exception leaves call_tool, list_tools or start
Raised(st) ==
  [st EXCEPT !.c.pc = "done", !.c.dead = FALSE, !.c.raised = TRUE,
             !.c.http = IF st.c.op \in {"call", "list"} THEN 500 ELSE 0,
             !.c.body = IF st.c.op \in {"call", "list"} THEN "error: str(e)" ELSE "pending"]

\* _get_next_id
GetNextIdStuck(n) == n

GetNextId(n) == n + 1

\* `if not self.message_url` (lines 80 and 82)
NeedsEstablishAlways(url) == TRUE

NeedsEstablish(url) == url = None

\* which failures inside the try of line 97 reach `except Exception` and
\* re-establish (line 143); a timeout is caught by `except
\* asyncio.TimeoutError` before it
ReestablishesOnAny(t) == t \in {"error", "typeerror", "loadserror", "dumpserror", "timeout"}

Reestablishes(t) == t \in {"error", "typeerror", "loadserror", "dumpserror"}

\* _establish_session is entered: session.get raises at once unless the
\* ClientSession is open (estRes "closed"), and the exception is re-raised
\* (line 71)
BeginEstablish(st, sess, nextpc) ==
  LET s1 == [st EXCEPT !.c.ests = @ + 1, !.c.estLine = NoLine, !.c.dead = FALSE] IN
  IF sess = "open" THEN [s1 EXCEPT !.c.pc = nextpc, !.c.estRes = "reading"]
  ELSE Raised([s1 EXCEPT !.c.estRes = "closed"])

\* lines 85-107 and 143-146: allocate the id, build the request, format it
\* for the debug message (json.dumps(request, indent=2) of line 100, inside
\* the try), POST it to message_url.  When json.dumps raises (a tool name or
\* arguments nested too deep for the encoder) no POST is sent and `except
\* Exception` enters the re-establishment, as it does when session.post
\* raises at once on a ClientSession that is not open.
SendPost(st, sess) ==
  LET id == GetNextId(st.n)
      s0 == [st EXCEPT !.n = id, !.iss = Append(@, id), !.c.rid = id, !.c.ids = Append(@, id),
                       !.c.estsAtPost = st.c.ests]
      s1 == [s0 EXCEPT !.c.posts = @ + 1, !.c.postUrl = st.url]
  IN IF st.c.req = "undumpable tool" THEN BeginEstablish([s0 EXCEPT !.c.postOut = "dumpserror"], sess, "reest")
     ELSE IF sess = "open" THEN [s1 EXCEPT !.c.pc = "post"]
     ELSE BeginEstablish([s1 EXCEPT !.c.postOut = "error"], sess, "reest")

\* lines 149-169: _call_tool_via_sse allocates an id and POSTs to /sse
\* (FallbackSameId: it sends the id the call already holds, if it holds one)
FallbackSameId(st, sess) ==
  LET fresh == st.c.ids = <<>>
      id == IF fresh THEN GetNextId(st.n) ELSE st.c.rid
      s1 == [st EXCEPT !.n = IF fresh THEN id ELSE @, !.iss = IF fresh THEN Append(@, id) ELSE @,
                       !.c.rid = id, !.c.ids = IF fresh THEN Append(@, id) ELSE @, !.c.sends = @ + 1]
  IN IF sess = "open" THEN [s1 EXCEPT !.c.pc = "sse"]
     ELSE Done(s1, Value(ErrorEnvelope("str(e)")))

Fallback(st, sess) ==
  LET id == GetNextId(st.n)
      s1 == [st EXCEPT !.n = id, !.iss = Append(@, id), !.c.rid = id, !.c.ids = Append(@, id), !.c.sends = @ + 1]
  IN IF sess = "open" THEN [s1 EXCEPT !.c.pc = "sse"]
     ELSE Done(s1, Value(ErrorEnvelope("str(e)")))

\* lines 80-85
CallTool(st, sess) ==
  IF NeedsEstablish(st.url) THEN BeginEstablish(st, sess, "est") ELSE SendPost(st, sess)

\* list_tools: _call_tool_via_sse("tools", {"operation": "list"})
ListViaCallTool(st, sess) == CallTool(st, sess)

ListVia(st, sess) == Fallback(st, sess)

\* _establish_session returned without raising: to start (line 40), to the
\* check of line 82, or to the except handler of call_tool (line 147)
AfterEstablish(st, sess) ==
  IF st.c.pc = "start" THEN Done(st, Started)
  ELSE IF st.c.pc = "est"
       THEN IF NeedsEstablish(st.url)
            THEN Done(st, Value(ErrorEnvelope("Failed to establish session")))
            ELSE SendPost(st, sess)
  ELSE Done(st, Value(ErrorEnvelope("str(e)")))

\* lines 109-147: the POST came to o
AfterPost(st, sess, o) ==
  LET decoded == IF o.t = "json" THEN [found |-> TRUE, exc |-> FALSE, resp |-> o.resp]
                 ELSE IF o.t = "sse" THEN PostScan(o.lines)
                 ELSE [found |-> FALSE, exc |-> o.t = "unloadable", resp |-> Blank]
      n == Normalize(decoded.resp)
      t == IF decoded.exc THEN "loadserror"
           ELSE IF o.t \in {"json", "sse"} /\ decoded.found /\ n.exc THEN "typeerror"
           ELSE IF o.t = "sse" /\ ~decoded.found THEN "nopayload"
           ELSE o.t
      s1 == [st EXCEPT !.c.postOut = t]
  IN IF Reestablishes(t) THEN BeginEstablish(s1, sess, "reest")
     ELSE IF t = "timeout" THEN Done(s1, Value(ErrorEnvelope("Request timeout")))
     ELSE IF t = "status" THEN Done(s1, Value(ErrorEnvelope("HTTP status")))
     ELSE IF t = "text" THEN Fallback(s1, sess)
     ELSE IF decoded.found THEN Done(s1, Value(n.resp))
     ELSE Done(s1, ReturnedNone)

\* lines 173-205: one line of the POST /sse stream: skipped, leaving the
\* loop (break on the sentinel, take on the object with the id of the
\* request), or leaving the try (abort: json.loads raises an error that is
\* not a JSONDecodeError, which `except Exception` of line 203 catches)
SseOnLine(line, rid) ==
  IF ~line.pre THEN "skip"
  ELSE IF line.what = "done" THEN "break"
  ELSE IF line.what = "raises" THEN "abort"
  ELSE IF line.what = "json" /\ line.resp.kind = "object" /\ line.resp.idk = "int" /\ line.resp.idv = rid THEN "take"
  ELSE "skip"

St(p) == [c |-> call[p], n |-> request_id, sid |-> session_id, url |-> message_url, iss |-> issued]

Commit(p, st) ==
  /\ call' = [call EXCEPT ![p] = IF st.c.pc = "done" THEN Idle ELSE st.c]
  /\ returned' = IF st.c.pc = "done" THEN st.c ELSE Idle
  /\ request_id' = st.n
  /\ session_id' = st.sid
  /\ message_url' = st.url
  /\ issued' = st.iss

Invoke(p, op) ==
  [St(p) EXCEPT !.c = [Idle EXCEPT !.op = op, !.hadUrl = (message_url # None),
                                   !.preSid = session_id, !.preUrl = message_url]]

\* a new invocation takes the lowest handler slot that is not running
Free(p) == call[p].pc = "idle"
\* the loop runs one handler step at a time; a handler that returned has its
\* response written out before the next handler step is taken
Running == returned = Idle
CanInvoke(p) == Running /\ Free(p) /\ (\A q \in Procs : q < p => ~Free(q))
\* the invocations that allocate correlation ids are counted and capped
CanCall(p) == CanInvoke(p) /\ invocations < MaxCalls

Init ==
  /\ session = "none"
  /\ request_id = 0
  /\ session_id = None
  /\ message_url = None
  /\ call = [p \in Procs |-> Idle]
  /\ returned = Idle
  /\ issued = <<>>
  /\ invocations = 0
  /\ normIn = Blank /\ norm1 = [exc |-> FALSE, resp |-> Blank] /\ norm2 = [exc |-> FALSE, resp |-> Blank] /\ normPass = 0
  /\ estIn = <<>> /\ estPrev = [sid |-> None, url |-> None] /\ estState = "closed"
  /\ sseIn = <<>> /\ sseOut = Pending /\ sseState = "idle"

\* HuskyLensMCPClient.start, on a client that was not started before
Start(p) ==
  /\ CanInvoke(p)
  /\ session = "none"
  /\ session' = "open"
  /\ Commit(p, BeginEstablish(Invoke(p, "start"), "open", "start"))
  /\ UNCHANGED <<invocations, normVars, estVars, sseVars>>

\* HuskyLensMCPClient.stop: session.close() closes the connections, so the
\* requests in flight on them can only fail or see their stream end (dead)
Stop ==
  /\ Running
  /\ session # "none"
  /\ session' = "closed"
  /\ call' = [p \in Procs |-> IF call[p].pc \in {"start", "est", "reest", "post", "sse"}
                                THEN [call[p] EXCEPT !.dead = TRUE] ELSE call[p]]
  /\ returned' = Idle
  /\ UNCHANGED <<request_id, session_id, message_url, issued, invocations, normVars, estVars, sseVars>>

\* The bodies of POST /call: text that is not JSON (request.json() raises
\* JSONDecodeError), text on which request.json() raises another error
\* (unloadable, here an object without "tool" that nests deeper than the
\* recursion limit or holds a number of more digits than int() converts),
\* JSON that is not an object, an object without "tool", with an empty
\* "tool", with a tool name, with a tool name where the name or the
\* arguments nest so deep that request.json() loads the body but
\* json.dumps(request, indent=2) of line 100 raises RecursionError
\* (undumpable tool).
CallBodies == {"not JSON", "unloadable", "not an object", "no tool", "empty tool", "tool", "undumpable tool"}

\* `if not tool_name` (line 327)
ToolMissing(b) == b \in {"no tool", "empty tool"}

\* the bodies handle_tool_call answers without calling call_tool
Rejected(b) == b \in {"not JSON", "unloadable", "not an object"} \/ ToolMissing(b)

\* POST /call with a tool name: handle_tool_call calls call_tool
Call(p) ==
  /\ CanCall(p)
  /\ invocations' = invocations + 1
  /\ \E b \in CallBodies :
       /\ ~Rejected(b)
       /\ Commit(p, CallTool([Invoke(p, "call") EXCEPT !.c.req = b], session))
  /\ UNCHANGED <<session, normVars, estVars, sseVars>>

\* POST /call with a body that is not JSON (JSONDecodeError: 400), on which
\* request.json() raises another error (500), that is not an object
\* (data.get raises: 500), or without a tool name (400)
BadCall(p) ==
  /\ CanInvoke(p)
  /\ \E b \in CallBodies :
       /\ Rejected(b)
       /\ Commit(p, [Invoke(p, "badcall") EXCEPT
                       !.c.pc = "done", !.c.req = b,
                       !.c.http = IF b \in {"unloadable", "not an object"} THEN 500 ELSE 400,
                       !.c.body = IF b = "not JSON" THEN "Invalid JSON"
                                  ELSE IF b \in {"unloadable", "not an object"} THEN "error: str(e)"
                                  ELSE "Missing 'tool' parameter"])
  /\ UNCHANGED <<session, invocations, normVars, estVars, sseVars>>

\* GET /tools: handle_list_tools calls list_tools
ListTools(p) ==
  /\ CanCall(p)
  /\ invocations' = invocations + 1
  /\ Commit(p, ListVia(Invoke(p, "list"), session))
  /\ UNCHANGED <<session, normVars, estVars, sseVars>>

\* the establishment stream delivers a line
EstLine(p) ==
  /\ Running
  /\ call[p].pc \in {"start", "est", "reest"}
  /\ ~call[p].dead
  /\ \E line \in EstLines :
       LET r == EstablishOnLine(line, session_id, message_url) IN
       /\ r.brk
       /\ Commit(p, AfterEstablish([St(p) EXCEPT !.sid = r.sid, !.url = r.url,
                                                 !.c.estRes = "match", !.c.estLine = line], session))
  /\ UNCHANGED <<session, invocations, normVars, estVars, sseVars>>

\* the establishment stream ends without a line that breaks the loop
EstEof(p) ==
  /\ Running
  /\ call[p].pc \in {"start", "est", "reest"}
  /\ Commit(p, AfterEstablish([St(p) EXCEPT !.c.estRes = "nomatch"], session))
  /\ UNCHANGED <<session, invocations, normVars, estVars, sseVars>>

\* the establishment stream fails: logged and re-raised
EstError(p) ==
  /\ Running
  /\ call[p].pc \in {"start", "est", "reest"}
  /\ Commit(p, Raised([St(p) EXCEPT !.c.estRes = "raise"]))
  /\ UNCHANGED <<session, invocations, normVars, estVars, sseVars>>

\* the POST to the message endpoint completes, fails or times out
PostDone(p) ==
  /\ Running
  /\ call[p].pc = "post"
  /\ \E o \in PostOutcomes(call[p].rid) :
       /\ call[p].dead => o.t = "error"
       /\ Commit(p, AfterPost(St(p), session, o))
  /\ UNCHANGED <<session, invocations, normVars, estVars, sseVars>>

\* the POST /sse stream delivers a line that ends the scan
SseLine(p) ==
  /\ Running
  /\ call[p].pc = "sse"
  /\ ~call[p].dead
  /\ \E line \in BodyLines(call[p].rid) :
       LET a == SseOnLine(line, call[p].rid) IN
       /\ a # "skip"
       /\ IF a = "take"
          THEN LET n == Normalize(line.resp) IN
               Commit(p, Done(St(p), Value(IF n.exc THEN ErrorEnvelope("str(e)") ELSE n.resp)))
          ELSE IF a = "abort" THEN Commit(p, Done(St(p), Value(ErrorEnvelope("str(e)"))))
          ELSE Commit(p, Done(St(p), Value(ErrorEnvelope("No response received"))))
  /\ UNCHANGED <<session, invocations, normVars, estVars, sseVars>>

\* the POST /sse stream ends
SseEof(p) ==
  /\ Running
  /\ call[p].pc = "sse"
  /\ Commit(p, Done(St(p), Value(ErrorEnvelope("No response received"))))
  /\ UNCHANGED <<session, invocations, normVars, estVars, sseVars>>

\* the POST /sse stream fails
SseError(p) ==
  /\ Running
  /\ call[p].pc = "sse"
  /\ Commit(p, Done(St(p), Value(ErrorEnvelope("str(e)"))))
  /\ UNCHANGED <<session, invocations, normVars, estVars, sseVars>>

\* the response of the handler that returned is written out
Respond ==
  /\ ~Running
  /\ returned' = Idle
  /\ UNCHANGED <<session, request_id, session_id, message_url, call, issued, invocations, normVars, estVars, sseVars>>

Next ==
  \/ Respond
  \/ \E p \in Procs : Start(p)
  \/ Stop
  \/ \E p \in Procs : Call(p)
  \/ \E p \in Procs : BadCall(p)
  \/ \E p \in Procs : ListTools(p)
  \/ \E p \in Procs : EstLine(p)
  \/ \E p \in Procs : EstEof(p)
  \/ \E p \in Procs : EstError(p)
  \/ \E p \in Procs : PostDone(p)
  \/ \E p \in Procs : SseLine(p)
  \/ \E p \in Procs : SseEof(p)
  \/ \E p \in Procs : SseError(p)

Spec == Init /\ [][Next]_vars

\* ------------------------------------------- normalisation of any payload
InitNorm ==
  /\ session = "none" /\ request_id = 0 /\ session_id = None /\ message_url = None
  /\ call = [p \in Procs |-> Idle] /\ returned = Idle /\ issued = <<>> /\ invocations = 0
  /\ normIn \in NormInputs
  /\ norm1 = [exc |-> FALSE, resp |-> Blank] /\ norm2 = [exc |-> FALSE, resp |-> Blank] /\ normPass = 0
  /\ estIn = <<>> /\ estPrev = [sid |-> None, url |-> None] /\ estState = "closed"
  /\ sseIn = <<>> /\ sseOut = Pending /\ sseState = "idle"

\* _process_tool_response(normIn)
NormalizeOnce ==
  /\ normPass = 0
  /\ norm1' = Normalize(normIn)
  /\ normPass' = 1
  /\ UNCHANGED <<session, request_id, session_id, message_url, call, returned, issued, invocations, normIn, norm2, estVars, sseVars>>

\* _process_tool_response of the value the first pass returned
NormalizeAgain ==
  /\ normPass = 1
  /\ ~norm1.exc
  /\ norm2' = Normalize(norm1.resp)
  /\ normPass' = 2
  /\ UNCHANGED <<session, request_id, session_id, message_url, call, returned, issued, invocations, normIn, norm1, estVars, sseVars>>

NextNorm == NormalizeOnce \/ NormalizeAgain

SpecNorm == InitNorm /\ [][NextNorm]_vars

\* ------------------------------ establishments of one client, one by one
ScanLines ==
  EstLines \cup
  {[pre |-> FALSE, data |-> <<"/message">>],
   [pre |-> TRUE, data |-> <<"/message", "session_id=", "7">>],
   [pre |-> TRUE, data |-> <<>>],
   [pre |-> TRUE, data |-> <<"session_id=">>],
   [pre |-> TRUE, data |-> <<"session_id=", "a", "7", "X">>],
   [pre |-> TRUE, data |-> <<"X", "session_id=", "X", "session_id=", "7">>]}

InitEst ==
  /\ session = "open" /\ request_id = 0 /\ session_id = None /\ message_url = None
  /\ call = [p \in Procs |-> Idle] /\ returned = Idle /\ issued = <<>> /\ invocations = 0
  /\ normIn = Blank /\ norm1 = [exc |-> FALSE, resp |-> Blank] /\ norm2 = [exc |-> FALSE, resp |-> Blank] /\ normPass = 0
  /\ estIn = <<>> /\ estPrev = [sid |-> None, url |-> None] /\ estState = "closed"
  /\ sseIn = <<>> /\ sseOut = Pending /\ sseState = "idle"

\* _establish_session is entered and the GET /sse stream opens
SeqEstablish ==
  /\ estState # "reading"
  /\ estState' = "reading"
  /\ estIn' = <<>>
  /\ estPrev' = [sid |-> session_id, url |-> message_url]
  /\ UNCHANGED <<session, request_id, session_id, message_url, call, returned, issued, invocations, normVars, sseVars>>

\* the stream delivers a line: one iteration of the loop
SeqLine ==
  /\ estState = "reading"
  /\ Len(estIn) < MaxLines
  /\ \E line \in ScanLines :
       LET r == EstablishOnLine(line, session_id, message_url) IN
       /\ estIn' = Append(estIn, line)
       /\ session_id' = r.sid
       /\ message_url' = r.url
       /\ estState' = IF r.brk THEN "matched" ELSE "reading"
  /\ UNCHANGED <<session, request_id, call, returned, issued, invocations, normVars, estPrev, sseVars>>

\* the stream ends: the loop ends and _establish_session returns
SeqEof ==
  /\ estState = "reading"
  /\ estState' = "ended"
  /\ UNCHANGED <<session, request_id, session_id, message_url, call, returned, issued, invocations, normVars, estIn, estPrev, sseVars>>

\* the stream fails: _establish_session raises
SeqError ==
  /\ estState = "reading"
  /\ estState' = "raised"
  /\ UNCHANGED <<session, request_id, session_id, message_url, call, returned, issued, invocations, normVars, estIn, estPrev, sseVars>>

NextEst == SeqEstablish \/ SeqLine \/ SeqEof \/ SeqError

SpecEst == InitEst /\ [][NextEst]_vars

\* --------------------------- stream-fallback scans of one client, one by one
\* The lines the upstream sends on the POST /sse stream of request rid.
FallbackLines(rid) ==
  BodyLines(rid) \cup
  {[pre |-> TRUE, what |-> "json", resp |-> r] :
     r \in {Success([idk |-> "int", idv |-> rid], TRUE, [rk |-> "object", isErr |-> "true", ck |-> "str", cs |-> <<"b">>, items |-> <<>>]),
            Success([idk |-> "absent", idv |-> 0], TRUE, [rk |-> "object", isErr |-> "false", ck |-> "str", cs |-> <<"a">>, items |-> <<>>]),
            [Blank EXCEPT !.kind = "list"]}}
  \cup {[pre |-> FALSE, what |-> "json", resp |-> Success([idk |-> "int", idv |-> rid], TRUE, [rk |-> "object", isErr |-> "false", ck |-> "str", cs |-> <<"a">>, items |-> <<>>])]}

InitSse ==
  /\ session = "open" /\ request_id = 0 /\ session_id = None /\ message_url = None
  /\ call = [p \in Procs |-> Idle] /\ returned = Idle /\ issued = <<>> /\ invocations = 0
  /\ normIn = Blank /\ norm1 = [exc |-> FALSE, resp |-> Blank] /\ norm2 = [exc |-> FALSE, resp |-> Blank] /\ normPass = 0
  /\ estIn = <<>> /\ estPrev = [sid |-> None, url |-> None] /\ estState = "closed"
  /\ sseIn = <<>> /\ sseOut = Pending /\ sseState = "idle"

\* _call_tool_via_sse is entered: it allocates an id and the POST /sse
\* stream opens
ScanBegin ==
  /\ sseState # "reading"
  /\ request_id < MaxCalls
  /\ request_id' = GetNextId(request_id)
  /\ issued' = Append(issued, GetNextId(request_id))
  /\ sseIn' = <<>>
  /\ sseOut' = Pending
  /\ sseState' = "reading"
  /\ UNCHANGED <<session, session_id, message_url, call, returned, invocations, normVars, estVars>>

\* the stream delivers a line: one iteration of the loop, and what follows
\* the loop when the line leaves it
ScanLine ==
  /\ sseState = "reading"
  /\ Len(sseIn) < MaxLines
  /\ \E line \in FallbackLines(request_id) :
       LET a == SseOnLine(line, request_id)
           n == Normalize(line.resp)
       IN /\ sseIn' = Append(sseIn, line)
          /\ sseState' = (IF a = "skip" THEN "reading" ELSE IF a = "take" THEN "taken"
                          ELSE IF a = "abort" THEN "aborted" ELSE "sentinel")
          /\ sseOut' = (IF a = "skip" THEN Pending
                        ELSE IF a = "take" THEN Value(IF n.exc THEN ErrorEnvelope("str(e)") ELSE n.resp)
                        ELSE IF a = "abort" THEN Value(ErrorEnvelope("str(e)"))
                        ELSE Value(ErrorEnvelope("No response received")))
  /\ UNCHANGED <<session, request_id, session_id, message_url, call, returned, issued, invocations, normVars, estVars>>

\* the stream ends: the loop ends with full_response empty
ScanEof ==
  /\ sseState = "reading"
  /\ sseState' = "ended"
  /\ sseOut' = Value(ErrorEnvelope("No response received"))
  /\ UNCHANGED <<session, request_id, session_id, message_url, call, returned, issued, invocations, normVars, estVars, sseIn>>

\* the stream fails: `except Exception` of _call_tool_via_sse
ScanError ==
  /\ sseState = "reading"
  /\ sseState' = "failed"
  /\ sseOut' = Value(ErrorEnvelope("str(e)"))
  /\ UNCHANGED <<session, request_id, session_id, message_url, call, returned, issued, invocations, normVars, estVars, sseIn>>

NextSse == ScanBegin \/ ScanLine \/ ScanEof \/ ScanError

SpecSse == InitSse /\ [][NextSse]_vars

\* ------------------------------------------------------------------ claims
IsInternalError(v) == v.kind = "value" /\ v.resp.kind = "object" /\ v.resp.hasError /\ v.resp.ecode = InternalError

\* the handlers in flight and the one that just returned
Known == {call[p] : p \in Procs} \cup {returned}

\* C1: every correlation id placed in an outbound request, by call or by
\* listTools in any interleaving, is strictly greater than every id issued
\* before it; the first id is 1 and no id is issued twice.
C1_IdsStrictlyIncreasing ==
  /\ Len(issued) >= 1 => issued[1] = 1
  /\ \A i, j \in 1..Len(issued) : i < j => issued[i] < issued[j]
  /\ \A c \in Known : \A k \in 1..Len(c.ids) : \E i \in 1..Len(issued) : issued[i] = c.ids[k]

C1_Witness ==
  /\ Len(issued) >= 3
  /\ returned.op = "list" /\ returned.ids # <<>>
  /\ \E p \in Procs : call[p].op = "call" /\ Len(call[p].ids) = 2

\* C2: whatever the upstream does (the establishment stream fails, the POST
\* fails, the re-establishment after a failed POST fails), call and listTools
\* return an error envelope with code -32603 and never raise.
C2_FailuresBecomeEnvelopes ==
  (returned.op \in {"call", "list"} /\ (returned.estRes = "raise" \/ returned.postOut = "error"))
    => (~returned.raised /\ IsInternalError(returned.ret))

\* C3: a POST answered 200 with a data-prefixed body in which no data line
\* yields a JSON payload makes call return an error envelope (-32603): it
\* returns no absent value and the bridge does not answer 500.
C3_NoPayloadIsErrorEnvelope ==
  (returned.op = "call" /\ returned.postOut = "nopayload")
    => (~returned.raised /\ IsInternalError(returned.ret) /\ returned.http # 500)

\* C4 as stated: a call invoked without a message endpoint makes exactly one
\* establishment attempt during the whole call, whether it succeeds or fails;
\* a call invoked with an endpoint makes none before sending its request.
\* (Stated for the calls that return an envelope and whose response decoded
\* to an object, so that no exception of another path is involved.)
C4_ExactlyOneEstablishment ==
  (returned.op = "call" /\ ~returned.raised /\ returned.postOut # "typeerror")
    => /\ ~returned.hadUrl => returned.ests = 1
       /\ (returned.hadUrl /\ returned.posts = 1) => returned.estsAtPost = 0

\* C4 as amended: a call invoked without a message endpoint makes exactly one
\* establishment attempt before it allocates its correlation id or returns
\* without allocating one; a call invoked with an endpoint makes none before
\* that; the call sends at most one POST, and at most one further attempt
\* follows the allocation: the re-establishment after a POST that failed or
\* after a request that could not be formatted and was never sent.
C4_OneEstablishmentBeforeSending ==
  \A c \in Known :
    c.op = "call" =>
      LET need == IF c.hadUrl THEN 0 ELSE 1
      IN /\ c.posts = 1 => c.estsAtPost = need
         /\ c.ids # <<>> => c.estsAtPost = need
         /\ (c.pc = "done" /\ c.posts = 0 /\ c.postOut # "dumpserror") => (c.ests = need /\ c.ids = <<>>)
         /\ c.postOut = "dumpserror" => (c.posts = 0 /\ Len(c.ids) = 1 /\ c.ests = need + 1)
         /\ c.pc = "est" => (c.ests = 1 /\ ~c.hadUrl)
         /\ c.posts <= 1
         /\ c.ests <= need + 1

C4_Witness ==
  /\ returned.op = "call" /\ ~returned.hadUrl /\ returned.ests = 1 /\ returned.posts = 1
  /\ returned.ret.kind = "value" /\ ~returned.ret.resp.hasError
  /\ \E q \in Procs : /\ call[q].op = "call" /\ call[q].hadUrl /\ call[q].posts = 1 /\ call[q].ests = 0

\* C5 as stated: when the POST times out, call returns the -32603 "Request
\* timeout" envelope, the session id and message endpoint are what they were
\* before the call, and the call made no establishment attempt.
C5_TimeoutLeavesSessionOfCallStart ==
  (returned.op = "call" /\ returned.postOut = "timeout")
    => /\ returned.ret = Value(ErrorEnvelope("Request timeout"))
       /\ session_id = returned.preSid
       /\ message_url = returned.preUrl
       /\ returned.ests = 0

\* C5 as amended: when the POST times out, call returns the -32603 "Request
\* timeout" envelope at once; handling the timeout changes neither the
\* session id nor the message endpoint, and the call makes no establishment
\* attempt after its POST was sent.
C5_TimeoutStepLeavesSession ==
  [][\A p \in Procs :
       (call[p].pc = "post" /\ call'[p] # call[p]
          /\ (IF call'[p].pc = "idle" THEN returned' ELSE call'[p]).postOut = "timeout")
         => /\ call'[p].pc = "idle"
            /\ ~returned'.raised
            /\ returned'.ret = Value(ErrorEnvelope("Request timeout"))
            /\ session_id' = session_id
            /\ message_url' = message_url
            /\ returned'.ests = call[p].estsAtPost]_vars

C5_Witness ==
  /\ returned.op = "call" /\ returned.postOut = "timeout"
  /\ returned.ret = Value(ErrorEnvelope("Request timeout"))
  /\ returned.hadUrl /\ returned.ests = 0
  /\ session_id = returned.preSid /\ session_id # None /\ message_url = returned.postUrl

\* C6: after a transport failure of the POST other than a timeout the call
\* makes one re-establishment attempt, never sends its request again, and
\* leaves as message endpoint the one that re-establishment derived, so the
\* next call posts there and not to the pre-failure endpoint.
C6_NextCallUsesReestablishedEndpoint ==
  [][\A p \in Procs :
       (call[p].pc = "reest" /\ call[p].postOut = "error" /\ call'[p].pc = "idle")
         => /\ returned'.posts = 1
            /\ returned'.sends = 0
            /\ returned'.ests = returned'.estsAtPost + 1
            /\ returned'.estRes = "match"
            /\ message_url' = ServerUrl \o returned'.estLine.data]_vars

\* C7: when the establishment stream ends before a line of a recognised
\* shape arrives, establishment reports failure to its caller (start
\* included): it does not complete as a success.
C7_StreamEndReportsFailure ==
  \A c \in Known : c.estRes = "nomatch" => c.raised

\* the two session-discovery shapes
ShapeA(line) == line.pre /\ HasMatch(line.data)
ShapeB(line) == line.pre /\ StartsWith(line.data, "/message")
Shaped(lines) == {i \in 1..Len(lines) : ShapeA(lines[i]) \/ ShapeB(lines[i])}
DerivedSid(line) == IF ShapeA(line) THEN Group1(line.data) ELSE None
DerivedUrl(line) == ServerUrl \o line.data

\* C8: establishment reads the lines in order and stops at the first
\* data-prefixed line of shape (a) or (b); the session id and the message
\* endpoint are a function of that line alone.
C8_FirstShapedLineDecides ==
  /\ estState \in {"reading", "ended", "raised"} => Shaped(estIn) = {}
  /\ estState = "matched"
       => /\ Shaped(estIn) = {Len(estIn)}
          /\ session_id = DerivedSid(estIn[Len(estIn)])
          /\ message_url = DerivedUrl(estIn[Len(estIn)])

\* C9: establishment while a session exists replaces the whole session
\* state: the session id and the message endpoint are both the values
\* derived from the newly matched line, nothing is kept from the old session.
C9_ReplacesWholeSession ==
  (estState = "matched" /\ estPrev.url # None)
    => LET line == estIn[Len(estIn)] IN
       /\ message_url = DerivedUrl(line)
       /\ session_id = DerivedSid(line)

\* C10: normalisation is idempotent: normalising the value normalisation
\* returned gives that value again, without raising.
C10_NormalizeIdempotent ==
  normPass = 2 => (norm2 = norm1 /\ ~norm2.exc)

C10_Witness ==
  /\ normPass = 2
  /\ normIn.ck = "list" /\ Len(normIn.items) = 2
  /\ norm1.resp # normIn
  /\ norm2.resp.cs = <<"a", "\n", "b">>

\* the texts of the text-typed items of a content list, in list order, with
\* a newline between two neighbours (an item without a text counts as the
\* empty text)
TextItems(items) == SelectSeq(items, LAMBDA it : it.type = "text")
RECURSIVE JoinedTexts(_, _)
JoinedTexts(T, n) ==
  IF n = 0 THEN <<>>
  ELSE IF n = 1 THEN T[1].ts
  ELSE JoinedTexts(T, n - 1) \o <<"\n">> \o T[n].ts

\* a Response whose result is a mapping with a content list
HasContentList(r) == r.kind = "object" /\ ~r.hasError /\ r.rk = "object" /\ r.ck = "list"

\* C11: for a Response whose result is a mapping with a content list,
\* normalisation returns (it does not fail) a content equal to the texts of
\* the text-typed items in list order joined by a newline, with the
\* correlation id of the Response and the error flag of its result (false
\* when there is none); the items that are not text-typed change nothing.
C11_ContentIsJoinedTexts ==
  (normPass >= 1 /\ HasContentList(normIn))
    => /\ ~norm1.exc
       /\ norm1.resp.kind = "object" /\ ~norm1.resp.hasError
       /\ norm1.resp.rk = "object" /\ norm1.resp.ck = "str"
       /\ norm1.resp.cs = JoinedTexts(TextItems(normIn.items), Len(TextItems(normIn.items)))
       /\ norm1.resp.idv = normIn.idv
       /\ norm1.resp.idk = (IF normIn.idk = "absent" THEN "null" ELSE normIn.idk)
       /\ norm1.resp.isErr = (IF normIn.isErr = "absent" THEN "false" ELSE normIn.isErr)

\* a line that answers request rid, and the sentinel line
IsMatch(line, rid) ==
  line.pre /\ line.what = "json" /\ line.resp.kind = "object" /\ line.resp.idk = "int" /\ line.resp.idv = rid
IsSentinel(line) == line.pre /\ line.what = "done"
Deciding(lines, rid) == {i \in 1..Len(lines) : IsMatch(lines[i], rid) \/ IsSentinel(lines[i])}

\* C12: the stream-fallback scan reads on over bare numbers, unparseable
\* lines, lines without the data prefix and objects with another id: a line
\* ends it only if it is the first data-prefixed JSON object with the id of
\* the request, which the call resolves with, or the sentinel; when the
\* sentinel, the end of the stream or a failure of the stream comes first,
\* the value returned is an error envelope ("No response received" on the
\* sentinel and on the end), never a success.
C12_FirstMatchingObjectResolves ==
  /\ sseState = "reading" => (Deciding(sseIn, request_id) = {} /\ sseOut = Pending)
  /\ sseState \in {"taken", "sentinel", "aborted"} => Deciding(sseIn, request_id) = {Len(sseIn)}
  /\ sseState = "taken"
       => /\ IsMatch(sseIn[Len(sseIn)], request_id)
          /\ sseOut = Value(Normalize(sseIn[Len(sseIn)].resp).resp)
          /\ sseOut.resp.idv = request_id
  /\ sseState = "sentinel"
       => /\ IsSentinel(sseIn[Len(sseIn)])
          /\ sseOut = Value(ErrorEnvelope("No response received"))
  /\ sseState = "ended"
       => /\ Deciding(sseIn, request_id) = {}
          /\ sseOut = Value(ErrorEnvelope("No response received"))
  /\ sseState = "failed" => (Deciding(sseIn, request_id) = {} /\ IsInternalError(sseOut))

\* the handlers of a POST /call whose body has no tool name or an empty one;
\* "unloadable" is such a body on which request.json() raises an error other
\* than JSONDecodeError (an integer of more than 4300 digits, deep nesting)
NoToolName(c) == c.req \in {"no tool", "empty tool", "unloadable"}

\* C13: POST /call whose body has no tool name or an empty one is answered
\* in the step that receives it with HTTP 400 and {error: "Missing tool
\* parameter"}; that step sends nothing upstream, allocates no correlation
\* id and leaves the session state as it was.
C13_MissingToolIsRejected ==
  [][\A c \in Known' :
       NoToolName(c) => /\ returned' = c
                        /\ c.pc = "done" /\ c.http = 400 /\ c.body = "Missing tool parameter"
                        /\ c.ids = <<>> /\ c.posts = 0 /\ c.sends = 0 /\ c.ests = 0
                        /\ UNCHANGED <<session, request_id, session_id, message_url, issued>>]_vars

\* a call_tool that ended without a Response of the upstream: it raised,
\* returned nothing, or returned an internal-error envelope
FailedCall(c) ==
  c.op = "call" /\ c.pc = "done" /\ c.estRes # "closed"
  /\ (c.raised \/ c.ret.kind = "none" \/ IsInternalError(c.ret))

\* C14: a POST /call with a tool name whose call fails in the client
\* (establishment, timeout, transport, upstream status, no decodable or no
\* matching response) is answered with HTTP 200 and an error envelope; 400
\* is the answer to malformed or incomplete requests only.
C14_ClientFailuresAnswered200 ==
  /\ FailedCall(returned) => (returned.http = 200 /\ IsInternalError(returned.ret))
  /\ returned.http = 400 => returned.op = "badcall"

\* C15: listTools goes straight to the stream fallback: the step that
\* invokes it advances the correlation-id counter by exactly one and its
\* later steps leave the counter alone; no step of it changes the session
\* id or the message endpoint; it never POSTs to the message endpoint and
\* never enters establishment; it sends one request, on POST /sse.
C15_ListToolsGoesToFallback ==
  [][/\ \A p \in Procs :
          (call'[p] # call[p] /\ (call[p].op = "list" \/ call'[p].op = "list" \/ returned'.op = "list"))
            => /\ UNCHANGED <<session_id, message_url>>
               /\ request_id' = (IF call[p].op = "list" THEN request_id ELSE request_id + 1)
     /\ (returned'.op = "list" /\ call' = call)
          => (request_id' = request_id + 1 /\ UNCHANGED <<session_id, message_url>>)
     /\ \A c \in Known' :
          c.op = "list" => (c.posts = 0 /\ c.ests = 0 /\ c.postUrl = None /\ c.sends = 1 /\ Len(c.ids) = 1)]_vars

C15_Witness ==
  /\ returned.op = "list" /\ returned.hadUrl
  /\ returned.ret.kind = "value" /\ returned.ret.resp.rk = "object" /\ returned.ret.resp.cs = <<"a">>
  /\ returned.ids = <<2>> /\ request_id = 2
  /\ message_url = returned.preUrl /\ session_id = returned.preSid /\ session_id # None

\* C16 as the specification words it: the request sent over the stream
\* carries the id of the request that was POSTed, and a call consumes
\* exactly one correlation id.
C16_FallbackResendsSameId ==
  \A c \in Known :
    (c.op = "call" /\ c.sends = 1) => (Len(c.ids) = 1 /\ c.rid = c.ids[1])

\* C16: a call whose POST body is neither data-prefixed nor JSON sends a
\* second request, on POST /sse, with a newly allocated correlation id that
\* is greater than the id it POSTed, and a Response it returns from the
\* stream carries that new id; such a call consumes exactly two ids, and a
\* call that does not fall back consumes at most one.
C16_FallbackAllocatesNewId ==
  \A c \in Known :
    c.op = "call"
      => /\ c.sends = 0 => Len(c.ids) <= 1
         /\ c.sends >= 1
              => /\ c.sends = 1 /\ c.posts = 1 /\ c.postOut = "text"
                 /\ Len(c.ids) = 2 /\ c.ids[1] < c.ids[2] /\ c.rid = c.ids[2]
                 /\ (c.pc = "done" /\ c.ret.kind = "value" /\ ~IsInternalError(c.ret))
                      => (c.ret.resp.idk = "int" /\ c.ret.resp.idv = c.ids[2])

C16_Witness ==
  /\ returned.op = "call" /\ returned.sends = 1 /\ returned.postOut = "text"
  /\ returned.ids = <<1, 2>>
  /\ returned.ret.kind = "value" /\ returned.ret.resp.rk = "object" /\ returned.ret.resp.idv = 2

\* the handlers that met a transport error on their POST and are done
TransportFailed(c) == c.postOut = "error" /\ c.pc = "done"

\* C17: once the client is stopped, and once a call has ended on a transport
\* error of its POST without a later establishment deriving a new session,
\* the session id and the message endpoint are cleared (the health report
\* says no session is established and no later call can POST to the old
\* endpoint).
C17_InvalidatedSessionIsCleared ==
  /\ session = "closed" => (session_id = None /\ message_url = None)
  /\ (TransportFailed(returned) /\ returned.estRes \in {"nomatch", "raise", "closed"})
       => (session_id = None /\ message_url = None)

\* ------------------------------------------------------------- progress
\* The event loop runs every handler that can take a step.  The POST of
\* call_tool carries a 30 s timeout (line 106), so it always comes to an
\* outcome.  The reads of the GET /sse and POST /sse streams carry none in
\* the source; StreamEnds grants that each of them ends nevertheless (by a
\* line that leaves the loop, by the end of the stream or by a failure, a
\* timeout of the HTTP library included).
StreamEnds(p) == EstLine(p) \/ EstEof(p) \/ EstError(p) \/ SseLine(p) \/ SseEof(p) \/ SseError(p)

SpecLive ==
  /\ Init /\ [][Next]_vars
  /\ WF_vars(Respond)
  /\ \A p \in Procs : SF_vars(PostDone(p)) /\ SF_vars(StreamEnds(p))

\* C18: every call and listTools invocation that waits on a stream of the
\* upstream eventually completes with a Response or an error envelope
\* (unless the client is stopped meanwhile).
C18_EveryInvocationCompletes ==
  \A p \in Procs :
    (call[p].op \in {"call", "list"} /\ call[p].pc \in {"est", "reest", "sse"})
      ~> \/ call[p].pc = "idle" /\ returned.op \in {"call", "list"} /\ returned.ret.kind = "value"
         \/ session = "closed"

\* C19: in every interleaving and for every reply of the upstream, a
\* success envelope that a call or listTools returns carries a correlation
\* id that this invocation allocated.
C19_SuccessCarriesOwnId ==
  (returned.op \in {"call", "list"} /\ returned.ret.kind = "value"
   /\ returned.ret.resp.kind = "object" /\ ~returned.ret.resp.hasError)
    => /\ returned.ret.resp.idk = "int"
       /\ \E k \in 1..Len(returned.ids) : returned.ids[k] = returned.ret.resp.idv

\* C20: when the POST body, or a data line of it, decodes to a JSON value
\* that is not an object (postOut "typeerror" is the call whose payload
\* normalisation does not accept), the call does not raise, enters no
\* establishment after its POST and leaves the session fields as they were.
C20_NonObjectPayloadLeavesSession ==
  \A c \in Known :
    c.postOut = "typeerror"
      => /\ c.ests = c.estsAtPost
         /\ ~c.raised
         /\ c.pc = "done" => IsInternalError(c.ret)
====
